---------------------------- MODULE Spec2Model ----------------------------
(***************************************************************************)
(* Desktop File Organizer (src/desktop_organizer.py).                      *)
(*                                                                         *)
(* One run of main(): scan the target directory, then for every scanned    *)
(* file categorize it by extension, create the category folder and move    *)
(* the file into it, counting successes and failures.                      *)
(*                                                                         *)
(* File names are strings; a path is a sequence of names relative to the   *)
(* target directory (<<>> is the target directory itself).  The file       *)
(* system is a function from the existing paths to their entries; entries  *)
(* are regular files and directories.                                      *)
(***************************************************************************)
EXTENDS Integers, Sequences, FiniteSets, TLC

VARIABLES
    fs,               \* the file system: existing path -> entry
    fs0,              \* the file system before the run (never changes)
    fault,            \* environment: scanned name -> the failure it meets
    pc,               \* position of main(): "start", "loop", "move", "done"
    files,            \* organize: the list returned by scan_files
    idx,              \* organize: 1-based position of file_path in files
    category,         \* organize: category of the current file
    total_files,      \* organize: len(files)
    files_moved,      \* organize: counter
    files_failed,     \* organize: counter
    category_counts,  \* organize: dict category -> count
    log,              \* the calls made to log_file_move / log_error
    stats,            \* the OrganizationStats returned by organize, or None
    exit_status,      \* value returned by main, NoExit while running
    catIn,            \* categorizer harness: the name given
    catOut            \* categorizer harness: the category returned

vars == <<fs, fs0, fault, pc, files, idx, category, total_files, files_moved,
          files_failed, category_counts, log, stats, exit_status, catIn, catOut>>

runVars == <<fs, fs0, fault, pc, files, idx, category, total_files,
             files_moved, files_failed, category_counts, log, stats,
             exit_status>>

(***************************************************************************)
(* Bounds of the model.                                                    *)
(***************************************************************************)
MaxFiles == 2     \* most regular files in the target directory
MaxChain == 2     \* most entries r.pdf, r_1.pdf, ... already in Documents

None == "None"
\* organize has not returned an OrganizationStats
NoStats == [returned |-> FALSE]
NoExit == -1
Misc == "Miscellaneous"

(***************************************************************************)
(* Strings.                                                                *)
(***************************************************************************)
Ch(s, i) == SubSeq(s, i, i)

UPPER == "ABCDEFGHIJKLMNOPQRSTUVWXYZ"
LOWER == "abcdefghijklmnopqrstuvwxyz"

\* str.lower() on one character
lower_char(c) ==
    LET I == {i \in 1..Len(UPPER) : Ch(UPPER, i) = c}
    IN  IF I = {} THEN c ELSE Ch(LOWER, CHOOSE i \in I : TRUE)

\* str.lower() of the characters of s from position i on
RECURSIVE lower_from(_, _)
lower_from(s, i) ==
    IF i > Len(s) THEN "" ELSE lower_char(Ch(s, i)) \o lower_from(s, i + 1)

\* str.lower()
lower(s) == lower_from(s, 1)

\* str.rfind(c), 1-based, 0 when c does not occur
rfind(s, c) ==
    LET I == {i \in 1..Len(s) : Ch(s, i) = c}
    IN  IF I = {} THEN 0 ELSE CHOOSE i \in I : \A j \in I : j <= i

\* pathlib's PurePath.suffix: from the last '.', unless that dot is the first
\* or the last character of the name
suffix(name) ==
    LET i == rfind(name, ".")
    IN  IF 1 < i /\ i < Len(name) THEN SubSeq(name, i, Len(name)) ELSE ""

\* pathlib's PurePath.stem: the name without its suffix
stem(name) ==
    LET i == rfind(name, ".")
    IN  IF 1 < i /\ i < Len(name) THEN SubSeq(name, 1, i - 1) ELSE name

(***************************************************************************)
(* FileCategorizer.                                                        *)
(***************************************************************************)
CATEGORIES == <<
    [category |-> "Images",
     extensions |-> {".jpg", ".jpeg", ".png", ".gif", ".bmp", ".svg", ".ico"}],
    [category |-> "Documents",
     extensions |-> {".pdf", ".doc", ".docx", ".txt", ".xlsx", ".pptx", ".odt"}],
    [category |-> "Videos",
     extensions |-> {".mp4", ".avi", ".mkv", ".mov", ".wmv", ".flv"}],
    [category |-> "Music",
     extensions |-> {".mp3", ".wav", ".flac", ".aac", ".ogg", ".wma"}],
    [category |-> "Archives",
     extensions |-> {".zip", ".rar", ".7z", ".tar", ".gz"}],
    [category |-> "Code",
     extensions |-> {".py", ".js", ".html", ".css", ".java", ".cpp", ".c",
                     ".ts", ".json"}] >>

\* categorize_file without the case folding
categorize_file_case_sensitive(name) ==
    LET extension == suffix(name)
        hits == {i \in 1..Len(CATEGORIES) : extension \in CATEGORIES[i].extensions}
    IN  IF extension = "" THEN Misc
        ELSE IF hits = {} THEN Misc
        ELSE CATEGORIES[CHOOSE i \in hits : \A j \in hits : i <= j].category

categorize_file(name) ==
    LET extension == lower(suffix(name))
        hits == {i \in 1..Len(CATEGORIES) : extension \in CATEGORIES[i].extensions}
    IN  IF extension = "" THEN Misc
        ELSE IF hits = {} THEN Misc
        ELSE CATEGORIES[CHOOSE i \in hits : \A j \in hits : i <= j].category

(***************************************************************************)
(* The file system.                                                        *)
(***************************************************************************)
Dir == [kind |-> "dir", content |-> <<>>]
File(c) == [kind |-> "file", content |-> c]

Root == <<>>

exists(f, p) == p \in DOMAIN f
is_file(f, p) == exists(f, p) /\ f[p].kind = "file"
is_dir(f, p) == exists(f, p) /\ f[p].kind = "dir"

\* the names of the entries of directory d
listdir(f, d) ==
    {p[Len(p)] : p \in {q \in DOMAIN f : Len(q) = Len(d) + 1
                                         /\ SubSeq(q, 1, Len(d)) = d}}

\* f without path p
Remove(f, p) == [q \in DOMAIN f \ {p} |-> f[q]]


\* the function holding the entries of E, a set of <<path, entry>> pairs
FromEntries(E) == [p \in {e[1] : e \in E} |-> (CHOOSE e \in E : e[1] = p)[2]]

(***************************************************************************)
(* FileScanner.                                                            *)
(***************************************************************************)
\* scan_files without its check that the path exists, over a listing that is
\* empty for a missing directory
scan_raises_without_exists_check(f) == exists(f, Root) /\ ~is_dir(f, Root)

\* scan_files raises: FileNotFoundError from its own check, or iterdir's
\* NotADirectoryError when the path is not a directory
scan_raises(f) == ~exists(f, Root) \/ ~is_dir(f, Root)

\* scan_files that keeps every entry of the directory
scan_files_all_entries(f) == listdir(f, Root)

\* the names scan_files returns (in an order iterdir chooses)
scan_files(f) == {n \in listdir(f, Root) : is_file(f, <<n>>)}

\* the orders in which iterdir may list the names of S
Orders(S) ==
    {s \in [1..Cardinality(S) -> S] : \A i, j \in DOMAIN s : s[i] = s[j] => i = j}

(***************************************************************************)
(* FolderManager.                                                          *)
(***************************************************************************)
\* create_category_folder with mkdir(exist_ok=False)
create_category_folder_strict(f, category_name, flt) ==
    LET folder_path == <<category_name>>
    IN  IF flt = "prov" \/ exists(f, folder_path)
        THEN [ok |-> FALSE, fs |-> f]
        ELSE [ok |-> TRUE, fs |-> f @@ (folder_path :> Dir)]

\* create_category_folder: mkdir(exist_ok=True) raises when the path exists and
\* is not a directory, or when the environment refuses (flt = "prov")
create_category_folder(f, category_name, flt) ==
    LET folder_path == <<category_name>>
    IN  IF flt = "prov" THEN [ok |-> FALSE, fs |-> f]
        ELSE IF exists(f, folder_path)
        THEN [ok |-> is_dir(f, folder_path), fs |-> f]
        ELSE [ok |-> TRUE, fs |-> f @@ (folder_path :> Dir)]

(***************************************************************************)
(* FileMover.                                                              *)
(***************************************************************************)
\* the while loop of _resolve_name_conflict, from the given counter
RECURSIVE resolve_loop(_, _, _, _, _)
resolve_loop(f, parent, stm, sfx, counter) ==
    LET new_name == stm \o "_" \o ToString(counter) \o sfx
        new_path == Append(parent, new_name)
    IN  IF ~exists(f, new_path) THEN new_path
        ELSE resolve_loop(f, parent, stm, sfx, counter + 1)

\* _resolve_name_conflict with the counter starting at 2
resolve_name_conflict_from_two(f, destination) ==
    LET name == destination[Len(destination)]
        parent == SubSeq(destination, 1, Len(destination) - 1)
    IN  resolve_loop(f, parent, stem(name), suffix(name), 2)

\* _resolve_name_conflict
resolve_name_conflict(f, destination) ==
    LET name == destination[Len(destination)]
        parent == SubSeq(destination, 1, Len(destination) - 1)
    IN  resolve_loop(f, parent, stem(name), suffix(name), 1)

\* shutil.move of a regular file: os.rename, and when that fails a copy
\* followed by os.unlink of the source.
\*   flt = "clean":  rename and the copy both fail: nothing changes
\*   flt = "copied": rename fails, the copy succeeds, unlink fails: the copy
\*                   stays at dst and the source stays where it was
shutil_move(f, src, dst, flt) ==
    IF flt = "clean" THEN [ok |-> FALSE, fs |-> f]
    ELSE IF flt = "copied" THEN [ok |-> FALSE, fs |-> (dst :> f[src]) @@ f]
    ELSE [ok |-> TRUE, fs |-> (dst :> f[src]) @@ Remove(f, src)]

\* move_file without the existence check
move_file_no_check(f, source, destination_folder, flt) ==
    LET destination == Append(destination_folder, source[Len(source)])
        r == shutil_move(f, source, destination, flt)
    IN  [ok |-> r.ok, fs |-> r.fs, destination |-> destination]

\* move_file: (success, file system afterwards, destination chosen)
move_file(f, source, destination_folder, flt) ==
    LET first == Append(destination_folder, source[Len(source)])
        destination == IF exists(f, first) THEN resolve_name_conflict(f, first)
                       ELSE first
        r == shutil_move(f, source, destination, flt)
    IN  [ok |-> r.ok, fs |-> r.fs, destination |-> destination]

(***************************************************************************)
(* DesktopOrganizer.organize: the statistics it keeps.                     *)
(***************************************************************************)
\* category_counts.get(category, 0)
get(counts, c) == IF c \in DOMAIN counts THEN counts[c] ELSE 0

\* the success branch that forgets category_counts
count_moved_no_category(st, name, c) ==
    [st EXCEPT !.files_moved = @ + 1,
               !.log = Append(@, [filename |-> name, category |-> c, kind |-> "moved"])]

\* lines 245-247: the success branch
count_moved(st, name, c) ==
    [st EXCEPT !.files_moved = @ + 1,
               !.category_counts = (c :> (get(@, c) + 1)) @@ @,
               !.log = Append(@, [filename |-> name, category |-> c, kind |-> "moved"])]

\* a failure branch that logs but does not count
count_failed_no_increment(st, name, c) ==
    [st EXCEPT !.log = Append(@, [filename |-> name, category |-> c, kind |-> "error"])]

\* lines 249-250, 253-254, 256-257, 259-260: a failure branch
count_failed(st, name, c) ==
    [st EXCEPT !.files_failed = @ + 1,
               !.log = Append(@, [filename |-> name, category |-> c, kind |-> "error"])]

\* the part of the state one loop iteration reads and writes
LoopState ==
    [fs |-> fs, files_moved |-> files_moved, files_failed |-> files_failed,
     category_counts |-> category_counts, log |-> log]


\* the loop state st becomes the state of the run
SetLoopState(st) ==
    /\ fs' = st.fs
    /\ files_moved' = st.files_moved
    /\ files_failed' = st.files_failed
    /\ category_counts' = st.category_counts
    /\ log' = st.log

\* names the regular files of the target directory are drawn from
RootPool == <<"r.pdf", "r_1.pdf", "s.PDF", "Documents", ".py">>

Range(s) == {s[i] : i \in DOMAIN s}

\* the names an entry of the target directory can have in this model
RootNames == Range(RootPool) \cup {"Documents", Misc, "old", "Images"}

\* categorize_file over those names, computed once
CategoryOf == [n \in RootNames |-> categorize_file(n)]

\* the failure the environment holds for the file called name
FaultOf(name) == IF name \in DOMAIN fault THEN fault[name] ELSE "none"

\* lines 234-260: one iteration of the loop of organize, as a function
LoopBody(st, name, flt) ==
    LET c == CategoryOf[name]
        p == create_category_folder(st.fs, c, flt)
        m == move_file(p.fs, <<name>>, <<c>>, flt)
    IN  IF ~p.ok THEN count_failed(st, name, c)
        ELSE IF m.ok THEN count_moved([st EXCEPT !.fs = m.fs], name, c)
        ELSE count_failed([st EXCEPT !.fs = m.fs], name, c)

(***************************************************************************)
(* The initial states: the target directory before the run.                *)
(***************************************************************************)
\* r.pdf, r_1.pdf, r_2.pdf, ...
ChainName(i) == IF i = 0 THEN "r.pdf" ELSE "r_" \o ToString(i) \o ".pdf"

FaultKinds == {"none", "prov", "clean", "copied"}

\* a regular file at path p; its content is named after the path it starts at
FileAt(p) == <<p, File(p)>>

\* The target directory holding the regular files S and
\*   docs >= 0: Documents/ with the first docs names of the chain (never
\*              together with a regular file Documents in S)
\*   subs:      Miscellaneous/ with the file .py and the directory Documents;
\*              old/ with old/r.pdf; Images/ with Images/a.JPG
Directory(S, docs, subs) ==
    FromEntries(
        {<<Root, Dir>>}
        \cup {FileAt(<<n>>) : n \in S}
        \cup (IF docs >= 0
              THEN {<<(<<"Documents">>), Dir>>}
                   \cup {FileAt(<<"Documents", ChainName(i)>>) : i \in 0..(docs - 1)}
              ELSE {})
        \cup (IF subs
              THEN {<<(<<Misc>>), Dir>>, FileAt(<<Misc, ".py">>),
                    <<(<<Misc, "Documents">>), Dir>>,
                    <<(<<"old">>), Dir>>, FileAt(<<"old", "r.pdf">>),
                    <<(<<"Images">>), Dir>>, FileAt(<<"Images", "a.JPG">>)}
              ELSE {}))

NoFiles == [p \in {} |-> Dir]

InitRun ==
    /\ \/ /\ fs = NoFiles                       \* the target does not exist
          /\ fault = [n \in {} |-> "none"]
       \/ /\ fs = (Root :> File(Root))          \* the target is a regular file
          /\ fault = [n \in {} |-> "none"]
       \/ \E S \in SUBSET Range(RootPool), docs \in (-1)..MaxChain,
             subs \in BOOLEAN :
             /\ Cardinality(S) <= MaxFiles
             /\ "Documents" \in S => docs = -1
             /\ fs = Directory(S, docs, subs)
             /\ fault \in [S -> FaultKinds]
    /\ fs0 = fs
    /\ pc = "start"
    /\ files = <<>>
    /\ idx = 1
    /\ category = None
    /\ total_files = 0
    /\ files_moved = 0
    /\ files_failed = 0
    /\ category_counts = [c \in {} |-> 0]
    /\ log = <<>>
    /\ stats = NoStats
    /\ exit_status = NoExit

Init == InitRun /\ catIn = "" /\ catOut = None

(***************************************************************************)
(* main() and DesktopOrganizer.organize.                                   *)
(***************************************************************************)
\* scan_files raises; organize lets it through; main prints and returns 1
ScanFail ==
    /\ pc = "start"
    /\ scan_raises(fs)
    /\ pc' = "done"
    /\ exit_status' = 1
    /\ UNCHANGED <<fs, fs0, fault, files, idx, category, total_files,
                   files_moved, files_failed, category_counts, log, stats,
                   catIn, catOut>>

\* lines 224-230: the scan, in some order, and the counters
ScanOK ==
    /\ pc = "start"
    /\ ~scan_raises(fs)
    /\ \E order \in Orders(scan_files(fs)) :
          /\ files' = order
          /\ total_files' = Len(order)
    /\ idx' = 1
    /\ files_moved' = 0
    /\ files_failed' = 0
    /\ category_counts' = [c \in {} |-> 0]
    /\ pc' = "loop"
    /\ UNCHANGED <<fs, fs0, fault, category, log, stats, exit_status,
                   catIn, catOut>>

\* a provisioning failure that leaves the loop: main returns 1
ProvisionAborts ==
    /\ pc = "loop"
    /\ idx <= Len(files)
    /\ \E p \in {create_category_folder(fs, CategoryOf[files[idx]], FaultOf(files[idx]))} :
          ~p.ok
    /\ pc' = "done"
    /\ exit_status' = 1
    /\ UNCHANGED <<fs, fs0, fault, files, idx, category, total_files,
                   files_moved, files_failed, category_counts, log, stats,
                   catIn, catOut>>

\* lines 236-239, 252-260: create_category_folder raises, the file is counted
\* as failed and the loop goes on
ProvisionFail ==
    /\ pc = "loop"
    /\ idx <= Len(files)
    /\ \E p \in {create_category_folder(fs, CategoryOf[files[idx]], FaultOf(files[idx]))} :
          /\ ~p.ok
          /\ category' = CategoryOf[files[idx]]
          /\ \E st \in {count_failed(LoopState, files[idx], CategoryOf[files[idx]])} :
                SetLoopState(st)
    /\ idx' = idx + 1
    /\ UNCHANGED <<fs0, fault, pc, files, total_files, stats, exit_status,
                   catIn, catOut>>

\* lines 236-239: the file is categorized and its folder exists afterwards
ProvisionOK ==
    /\ pc = "loop"
    /\ idx <= Len(files)
    /\ \E p \in {create_category_folder(fs, CategoryOf[files[idx]], FaultOf(files[idx]))} :
          /\ p.ok
          /\ category' = CategoryOf[files[idx]]
          /\ fs' = p.fs
    /\ pc' = "move"
    /\ UNCHANGED <<fs0, fault, files, idx, total_files, files_moved,
                   files_failed, category_counts, log, stats, exit_status,
                   catIn, catOut>>

\* lines 242-247: move_file returns success
MoveOK ==
    /\ pc = "move"
    /\ \E m \in {move_file(fs, <<files[idx]>>, <<category>>, FaultOf(files[idx]))} :
          /\ m.ok
          /\ \E st \in {count_moved([LoopState EXCEPT !.fs = m.fs], files[idx], category)} :
                SetLoopState(st)
    /\ idx' = idx + 1
    /\ pc' = "loop"
    /\ UNCHANGED <<fs0, fault, files, category, total_files, stats,
                   exit_status, catIn, catOut>>

\* lines 242, 248-250: move_file returns failure
MoveFail ==
    /\ pc = "move"
    /\ \E m \in {move_file(fs, <<files[idx]>>, <<category>>, FaultOf(files[idx]))} :
          /\ ~m.ok
          /\ \E st \in {count_failed([LoopState EXCEPT !.fs = m.fs], files[idx], category)} :
                SetLoopState(st)
    /\ idx' = idx + 1
    /\ pc' = "loop"
    /\ UNCHANGED <<fs0, fault, files, category, total_files, stats,
                   exit_status, catIn, catOut>>

\* lines 262-277, 326: the statistics are returned and main returns 0
Summarize ==
    /\ pc = "loop"
    /\ idx > Len(files)
    /\ stats' = [total_files |-> total_files, files_moved |-> files_moved,
                 files_failed |-> files_failed,
                 category_counts |-> category_counts]
    /\ exit_status' = 0
    /\ pc' = "done"
    /\ UNCHANGED <<fs, fs0, fault, files, idx, category, total_files,
                   files_moved, files_failed, category_counts, log,
                   catIn, catOut>>

Next ==
    \/ ScanFail
    \/ ScanOK
    \/ ProvisionFail
    \/ ProvisionOK
    \/ MoveOK
    \/ MoveFail
    \/ Summarize

Spec == Init /\ [][Next]_vars


\* The run under fairness: main is a sequential program that is never made to
\* wait, so a step that can be taken is taken.  The subdirectories old/,
\* Images/ and Miscellaneous/ are left out of these initial states.
FairInit == Init /\ ~exists(fs, <<"old">>)

FairSpec == FairInit /\ [][Next]_vars /\ WF_vars(Next)

(***************************************************************************)
(* FileCategorizer.categorize_file on its own, over a set of names.        *)
(***************************************************************************)
\* str.upper(), used to write the names below in other casings
upper_char(c) ==
    LET I == {i \in 1..Len(LOWER) : Ch(LOWER, i) = c}
    IN  IF I = {} THEN c ELSE Ch(UPPER, CHOOSE i \in I : TRUE)

RECURSIVE upper_from(_, _)
upper_from(s, i) ==
    IF i > Len(s) THEN "" ELSE upper_char(Ch(s, i)) \o upper_from(s, i + 1)

upper(s) == upper_from(s, 1)

\* .jpg -> .Jpg
capitalized(e) ==
    IF Len(e) < 2 THEN e
    ELSE Ch(e, 1) \o upper_char(Ch(e, 2)) \o SubSeq(e, 3, Len(e))

TableExtensions == UNION {CATEGORIES[i].extensions : i \in DOMAIN CATEGORIES}

CatStems == {"photo", "archive.tar", "notes", ""}

CatExtensions ==
    TableExtensions
    \cup {upper(e) : e \in TableExtensions}
    \cup {capitalized(e) : e \in TableExtensions}
    \cup {"", ".", ".xyz", ".JPGX", ".p"}

CatNames == {st \o e : st \in CatStems, e \in CatExtensions} \ {"", "."}

CatInit ==
    /\ fs = NoFiles
    /\ fs0 = NoFiles
    /\ fault = [n \in {} |-> "none"]
    /\ pc = "idle"
    /\ files = <<>>
    /\ idx = 1
    /\ category = None
    /\ total_files = 0
    /\ files_moved = 0
    /\ files_failed = 0
    /\ category_counts = [c \in {} |-> 0]
    /\ log = <<>>
    /\ stats = NoStats
    /\ exit_status = NoExit
    /\ catIn \in CatNames
    /\ catOut = None

Categorize ==
    /\ catOut = None
    /\ catOut' = categorize_file(catIn)
    /\ UNCHANGED <<catIn, runVars>>

CatNext == Categorize

CatSpec == CatInit /\ [][CatNext]_vars


(***************************************************************************)
(* The properties.                                                         *)
(***************************************************************************)
\* the category table as documented: extension -> category
DocumentedCategory(e) ==
    CASE e \in {".jpg", ".jpeg", ".png", ".gif", ".bmp", ".svg", ".ico"} -> "Images"
      [] e \in {".pdf", ".doc", ".docx", ".txt", ".xlsx", ".pptx", ".odt"} -> "Documents"
      [] e \in {".mp4", ".avi", ".mkv", ".mov", ".wmv", ".flv"} -> "Videos"
      [] e \in {".mp3", ".wav", ".flac", ".aac", ".ogg", ".wma"} -> "Music"
      [] e \in {".zip", ".rar", ".7z", ".tar", ".gz"} -> "Archives"
      [] e \in {".py", ".js", ".html", ".css", ".java", ".cpp", ".c", ".ts", ".json"} -> "Code"
      [] OTHER -> "Miscellaneous"

\* the extension as documented: from the last '.' of the name onward, empty
\* when the name has no '.' or nothing after its last '.'
LastDotExtension(name) ==
    LET dots == {i \in 1..Len(name) : Ch(name, i) = "."}
        last == CHOOSE i \in dots : \A j \in dots : j <= i
    IN  IF dots = {} THEN ""
        ELSE IF last = Len(name) THEN ""
        ELSE SubSeq(name, last, Len(name))

\* the name without the documented extension
LastDotStem(name) == SubSeq(name, 1, Len(name) - Len(LastDotExtension(name)))

\* a name whose only '.' is its first character, such as .py
LeadingDotOnly(name) ==
    {i \in 1..Len(name) : Ch(name, i) = "."} = {1}

\* C3 as stated: for every file name, categorize_file returns the documented
\* category of the lowercased substring from the last '.' onward, and
\* Miscellaneous when there is no '.', nothing after the last '.', or the
\* extension is in no category.
C3_CategoryOfLastDotExtension ==
    catOut # None => catOut = DocumentedCategory(lower(LastDotExtension(catIn)))

\* C3 amended: the same, for every name whose last '.' is not its first
\* character; a name whose only '.' is the leading one (.py, .gz) is treated as
\* having no extension and is Miscellaneous.
C3_CategoryOfExtension ==
    catOut # None =>
        catOut = IF LeadingDotOnly(catIn) THEN "Miscellaneous"
                 ELSE DocumentedCategory(lower(LastDotExtension(catIn)))

\* C3 witness: photo.JPG has been categorized as Images
C3_Witness == catIn = "photo.JPG" /\ catOut = "Images"


\* the names organize was given by the scan
Scanned == Range(files)

\* the scanned file n is no longer in the target directory itself (a folder of
\* its name may have taken its place)
Moved(n) == ~(exists(fs, <<n>>) /\ fs[<<n>>] = File(<<n>>))

\* where, below the target directory, the content of the scanned file n is
FinalPaths(n) == {p \in DOMAIN fs : Len(p) = 2 /\ fs[p] = File(<<n>>)}

RECURSIVE SumOver(_, _)
SumOver(f, D) ==
    IF D = {} THEN 0
    ELSE LET d == CHOOSE d \in D : TRUE IN f[d] + SumOver(f, D \ {d})

AllCategories == {CATEGORIES[i].category : i \in DOMAIN CATEGORIES} \cup {Misc}

\* C1: when organize returns, files_moved + files_failed = total_files, and
\* total_files is the number of entries the scan returned.
C1_MovedPlusFailedIsTotal ==
    stats # NoStats =>
        /\ stats.files_moved + stats.files_failed = stats.total_files
        /\ stats.total_files = Len(files)

\* C1 witness: a run has returned with both moved and failed files
C1_Witness ==
    stats # NoStats /\ stats.files_moved >= 1 /\ stats.files_failed >= 1

\* C2: the mover never overwrites or merges into an existing entry: every
\* entry that was in a folder before the run is still there unchanged, and
\* every file that was moved is at exactly one path, its own.
C2_NeverOverwrites ==
    /\ \A p \in DOMAIN fs0 : Len(p) = 2 => exists(fs, p) /\ fs[p] = fs0[p]
    /\ \A n \in Scanned : Moved(n) => Cardinality(FinalPaths(n)) = 1

\* C2 witness: the run is over and a file was moved into a folder that held
\* an entry of its name, so it sits there under another name
C2_Witness ==
    /\ pc = "done"
    /\ \E n \in Scanned :
          /\ Moved(n)
          /\ exists(fs0, <<categorize_file(n), n>>)
          /\ FinalPaths(n) # {}

\* C6: if the target directory does not exist the run aborts in the scan: no
\* statistics, no folder created, nothing moved, and main returns 1.
C6_MissingTargetAborts ==
    ~exists(fs0, Root) =>
        /\ pc \in {"start", "done"}
        /\ stats = NoStats
        /\ fs = fs0
        /\ log = <<>>
        /\ pc = "done" => exit_status = 1

\* C6 witness: main has returned for a target directory that does not exist
C6_Witness == ~exists(fs0, Root) /\ pc = "done" /\ exit_status = 1

\* C8: when organize returns, the values of category_counts sum to
\* files_moved, every moved file is counted under the category categorize_file
\* gives it, which is the folder it is in, and failed files are counted
\* nowhere.
C8_CategoryCountsMatchMoves ==
    stats # NoStats =>
        LET counts == stats.category_counts
        IN  /\ SumOver(counts, DOMAIN counts) = stats.files_moved
            /\ DOMAIN counts \subseteq AllCategories
            /\ \A c \in AllCategories :
                  get(counts, c) =
                      Cardinality({n \in Scanned : Moved(n) /\ categorize_file(n) = c})
            /\ \A n \in Scanned :
                  Moved(n) => \A p \in FinalPaths(n) : p[1] = categorize_file(n)

\* C8 witness: organize has returned, two files were moved and one category
\* holds both
C8_Witness ==
    /\ stats # NoStats
    /\ stats.files_moved = 2
    /\ \E c \in DOMAIN stats.category_counts : stats.category_counts[c] = 2

\* C9: a run touches only the regular files directly in the target
\* directory: the scan returns no directory, every directory stays where it
\* is, every entry inside a subdirectory keeps its path and content, and a
\* target holding only subdirectories gives total_files = 0 and is left as
\* it was.
C9_OnlyImmediateRegularFiles ==
    /\ \A n \in Scanned : is_file(fs0, <<n>>)
    /\ \A p \in DOMAIN fs0 : is_dir(fs0, p) => is_dir(fs, p)
    /\ \A p \in DOMAIN fs0 : Len(p) >= 2 => exists(fs, p) /\ fs[p] = fs0[p]
    /\ (is_dir(fs0, Root) /\ \A n \in listdir(fs0, Root) : is_dir(fs0, <<n>>)) =>
          /\ fs = fs0
          /\ files = <<>>
          /\ stats # NoStats =>
                stats.total_files = 0 /\ stats.files_moved = 0

\* C9 witness: organize has returned for a target holding subdirectories and
\* no regular file
C9_Witness ==
    /\ stats # NoStats
    /\ is_dir(fs0, <<"old">>)
    /\ \A n \in listdir(fs0, Root) : is_dir(fs0, <<n>>)
    /\ stats.total_files = 0


\* stem_k + extension
NumberedName(st, ext, k) == st \o "_" \o ToString(k) \o ext

\* the name a file called name, with the given stem and extension, is to get
\* in a folder whose entries are called used: its own name when unused, else
\* stem_N + extension for the smallest N >= 1 that is unused
ExpectedName(used, name, st, ext) ==
    IF name \notin used THEN name
    ELSE NumberedName(st, ext,
             CHOOSE k \in 1..(Cardinality(used) + 1) :
                 /\ NumberedName(st, ext, k) \notin used
                 /\ \A j \in 1..(k - 1) : NumberedName(st, ext, j) \in used)

\* a step in which move_file returned success
MoveSucceeds == pc = "move" /\ files_moved' = files_moved + 1

\* a step in which move_file returned failure
MoveFails == pc = "move" /\ files_moved' = files_moved

\* the step put the current file at folder/name and nowhere else
PlacedAt(name) ==
    /\ DOMAIN fs' \ DOMAIN fs = {<<category, name>>}
    /\ fs'[<<category, name>>] = fs[<<files[idx]>>]

\* C4 as stated: a successful move_file keeps the base name when the folder
\* has no entry of that name, and otherwise places the file at
\* stem_N + extension, N the smallest integer >= 1 whose name is unused, the
\* extension (from the last '.' onward) preserved exactly.
C4_NumberBeforeLastDotExtension ==
    [][MoveSucceeds =>
          PlacedAt(ExpectedName(listdir(fs, <<category>>), files[idx],
                                LastDotStem(files[idx]),
                                LastDotExtension(files[idx])))]_vars

\* C4 amended: the same, where a name whose only '.' is its first character
\* (.py) has no extension: the number goes at its end (.py_1).
C4_NumberBeforeExtension ==
    [][MoveSucceeds =>
          PlacedAt(ExpectedName(listdir(fs, <<category>>), files[idx],
                                IF LeadingDotOnly(files[idx]) THEN files[idx]
                                ELSE LastDotStem(files[idx]),
                                IF LeadingDotOnly(files[idx]) THEN ""
                                ELSE LastDotExtension(files[idx])))]_vars

\* C4 witness: Documents held r.pdf and r_1.pdf, and the scanned r.pdf is now
\* Documents/r_2.pdf
C4_Witness ==
    /\ exists(fs0, <<"Documents", "r.pdf">>)
    /\ exists(fs0, <<"Documents", "r_1.pdf">>)
    /\ exists(fs, <<"Documents", "r_2.pdf">>)
    /\ fs[<<"Documents", "r_2.pdf">>] = File(<<"r.pdf">>)
    /\ Moved("r.pdf")

\* C7 as stated: move_file changes the file system by exactly one move when
\* it returns success (the content at the new path is the content the source
\* had) and by nothing when it returns failure.
C7_MoveIsAllOrNothing ==
    [][/\ MoveSucceeds =>
             \E dst \in DOMAIN fs' \ DOMAIN fs :
                 fs' = (dst :> fs[<<files[idx]>>]) @@ Remove(fs, <<files[idx]>>)
       /\ MoveFails => fs' = fs]_vars

\* C5: a failure of one file never aborts the run.  Once the scan has
\* succeeded main returns 0 with the statistics, every scanned file has been
\* processed and reported exactly once, as an error when it was not moved,
\* and files_failed counts exactly those; and the run does reach its end.
C5_FailureNeverAborts ==
    /\ [](pc = "done" /\ ~scan_raises(fs0) =>
            /\ exit_status = 0
            /\ stats # NoStats
            /\ idx = Len(files) + 1
            /\ Len(log) = Len(files)
            /\ \A i \in 1..Len(files) :
                  /\ log[i].filename = files[i]
                  /\ log[i].kind = IF Moved(files[i]) THEN "moved" ELSE "error"
            /\ stats.files_failed = Cardinality({n \in Scanned : ~Moved(n)}))
    /\ <>(pc = "done")

\* C5 witness: the run ended with status 0 although the first file failed in
\* provisioning (its category path is a regular file) and a later one in the
\* move
C5_Witness ==
    /\ pc = "done"
    /\ exit_status = 0
    /\ Len(files) = 2
    /\ ~Moved(files[1])
    /\ is_file(fs0, <<categorize_file(files[1])>>)
    /\ ~Moved(files[2])


\* the scanned names in the order of RootPool: one fixed order of the scan
CanonicalOrder == SelectSeq(RootPool, LAMBDA n : n \in scan_files(fs0))

\* the loop of organize over the names order[i], order[i+1], ..., from st
RECURSIVE RunFrom(_, _, _)
RunFrom(st, order, i) ==
    IF i > Len(order) THEN st
    ELSE RunFrom(LoopBody(st, order[i], FaultOf(order[i])), order, i + 1)

\* the loop state organize starts from
InitialLoopState ==
    [fs |-> fs0, files_moved |-> 0, files_failed |-> 0,
     category_counts |-> [c \in {} |-> 0], log |-> <<>>]

\* this run ended as the run st did: the same final path and content for
\* every file, the same counts, the same files moved and the same failed
SameResult(st) ==
    /\ fs = st.fs
    /\ files_moved = st.files_moved
    /\ files_failed = st.files_failed
    /\ category_counts = st.category_counts
    /\ Range(log) = Range(st.log)

\* the run went as the loop, taken as a function, goes over files
RunIsLoopOverFiles ==
    stats # NoStats => LoopState = RunFrom(InitialLoopState, files, 1)

\* no scanned name is a category label, and none is the stem_N + suffix name
\* of another scanned file
NoInterference ==
    LET S == scan_files(fs0)
    IN  /\ S \cap AllCategories = {}
        /\ \A n \in S : \A m \in S \ {n} :
              \A k \in 1..Cardinality(DOMAIN fs0) :
                  n # NumberedName(stem(m), suffix(m), k)

=============================================================================
